---- MODULE Spec2Model ----
(***************************************************************************)
(* url_to_metadata.py: resolve links to their redirect targets (with an    *)
(* on-disk cache), extract an ISBN-13 / ASIN from each resolved URL, split *)
(* the identifiers by length and join them against the warehouse table.    *)
(*                                                                         *)
(* Strings that the code inspects character by character (resolved URLs,   *)
(* identifiers) are sequences of one-character strings.  Links are only    *)
(* ever used as dictionary keys and copied, so they are plain strings.     *)
(***************************************************************************)
EXTENDS Integers, Sequences, FiniteSets, TLC

VARIABLES
    pc,             \* position of the running call
    caller,         \* "get" when the functions run inside get(), else the function called directly
    exc,            \* exception raised out of the call ("none" when none)
    link_list,      \* get_long_links: argument
    file,           \* the cache file names["links"]: [exists, dict]
    link_dict,      \* get_long_links: the loaded dictionary
    longlink_list,  \* get_long_links: result, get_asinisbns: argument
    i,              \* get_long_links: index of the loop over link_list
    asinisbn_list,  \* get_asinisbns: result
    j,              \* get_asinisbns: index of the loop over longlink_list
    input_list,     \* get_inputs: argument
    m,              \* get_inputs: result [asin, isbn]
    table,          \* the warehouse table TITLE_INFO_DIM, as the rows it holds
    conn,           \* the warehouse connection: "none", "open", "closed"
    id_tuple,       \* get_metadata: argument
    id_type,        \* get_metadata: argument
    avalon,         \* get_metadata: rows returned by pd.read_sql
    df_asin,        \* get: ASIN result table
    df_isbn,        \* get: ISBN result table
    final_df,       \* get: returned table
    hist            \* history of the run: what happened, for stating the claims

vars == <<pc, caller, exc, link_list, file, link_dict, longlink_list, i,
          asinisbn_list, j, input_list, m, table, conn, id_tuple, id_type,
          avalon, df_asin, df_isbn, final_df, hist>>

(***************************************************************************)
(* Bounds of the model.                                                    *)
(***************************************************************************)
MaxLinks == 2       \* longest link_list / longlink_list / input_list
MaxRows == 2        \* most rows in the warehouse table
MaxIds == 3         \* longest input_list of a direct call of get_inputs

(***************************************************************************)
(* Characters and the strings the inputs are drawn from.                   *)
(***************************************************************************)
Digit == {"0", "1", "2", "3", "4", "5", "6", "7", "8", "9"}

Upper == {"A", "B", "C", "D", "E", "F", "G", "H", "I", "J", "K", "L", "M",
          "N", "O", "P", "Q", "R", "S", "T", "U", "V", "W", "X", "Y", "Z"}

UpperOrDigit == Upper \cup Digit

Isbn1 == <<"9", "7", "8", "0", "1", "4", "3", "1", "2", "7", "7", "4", "1">>

AsinB == <<"B", "0", "0", "A", "B", "C", "D", "E", "F", "G">>

AsinLower == <<"B", "0", "0", "a", "b", "c", "d", "e", "f", "g">>

Tokens == {Isbn1, AsinB, AsinLower, <<"1", "2">>}

\* resolved URLs: every concatenation of at most two tokens
URLS == Tokens \cup {a \o b : a \in Tokens, b \in Tokens}

Links == {"l1", "l2"}

\* what a HEAD request can resolve to, and what a cache file can hold
NetURLs == {<<"/">> \o Isbn1, <<"/">> \o AsinB, <<"/", "b", "0">>}

(***************************************************************************)
(* names["regex_str"]:                                                     *)
(*   (978[0-9]{10})|(B[A-Z0-9]{9})|([0-9]{9}[A-Z0-9]{1})                   *)
(***************************************************************************)
IsbnDigits == 10     \* {10} of the first alternative
AsinChars == 9       \* {9} of the second alternative
ShortDigits == 9     \* {9} of the third alternative

\* s[p .. p+n-1] exists and all its characters are in class
Run(s, p, n, class) ==
    /\ p + n - 1 <= Len(s)
    /\ \A k \in p .. (p + n - 1) : s[k] \in class

\* length matched by 978[0-9]{10} at position p, 0 when it does not match
Alt1(s, p) ==
    IF /\ p + 2 <= Len(s)
       /\ s[p] = "9" /\ s[p + 1] = "7" /\ s[p + 2] = "8"
       /\ Run(s, p + 3, IsbnDigits, Digit)
    THEN 3 + IsbnDigits ELSE 0

\* length matched by B[A-Z0-9]{9} at position p
Alt2(s, p) ==
    IF p <= Len(s) /\ s[p] = "B" /\ Run(s, p + 1, AsinChars, UpperOrDigit)
    THEN 1 + AsinChars ELSE 0

\* length matched by [0-9]{9}[A-Z0-9]{1} at position p
Alt3(s, p) ==
    IF Run(s, p, ShortDigits, Digit) /\ Run(s, p + ShortDigits, 1, UpperOrDigit)
    THEN ShortDigits + 1 ELSE 0

\* the alternation at position p: the first alternative that matches wins
MatchLenAt(s, p) ==
    IF Alt1(s, p) > 0 THEN Alt1(s, p)
    ELSE IF Alt2(s, p) > 0 THEN Alt2(s, p)
    ELSE Alt3(s, p)

NoMatch == [found |-> FALSE, group0 |-> <<>>]

\* re.search(exp, longlink): the match at the leftmost position, or None
re_search(s) ==
    LET hits == {p \in 1 .. Len(s) : MatchLenAt(s, p) > 0}
    IN  IF hits = {} THEN NoMatch
        ELSE LET p == CHOOSE q \in hits : \A r \in hits : q <= r
             IN  [found |-> TRUE, group0 |-> SubSeq(s, p, p + MatchLenAt(s, p) - 1)]

(***************************************************************************)
(* Dictionaries (link -> resolved URL) are functions on a set of links.    *)
(***************************************************************************)
EmptyDict == [k \in {} |-> <<>>]

Dicts == UNION {[D -> NetURLs] : D \in SUBSET Links}

\* sequences over S of length at most n
SeqsUpTo(S, n) == UNION {[1 .. k -> S] : k \in 0 .. n}

\* {a: b for (a, b) in pairs}: a later pair replaces an earlier one
DictOf(pairs) ==
    LET keys == {pairs[k][1] : k \in 1 .. Len(pairs)}
        last(a) == CHOOSE k \in 1 .. Len(pairs) :
                       /\ pairs[k][1] = a
                       /\ \A k2 \in 1 .. Len(pairs) : pairs[k2][1] = a => k2 <= k
    IN  [a \in keys |-> pairs[last(a)][2]]

\* d.update(e)
Update(d, e) ==
    [k \in DOMAIN d \cup DOMAIN e |-> IF k \in DOMAIN e THEN e[k] ELSE d[k]]

NoFile == [exists |-> FALSE, dict |-> EmptyDict]

Files == {NoFile} \cup {[exists |-> TRUE, dict |-> d] : d \in Dicts}

NoHist == [log |-> <<>>, requests |-> <<>>, outcome |-> <<>>, file0 |-> NoFile,
           run |-> 1, out1 |-> <<>>, outcome1 |-> <<>>, queries |-> <<>>]

(***************************************************************************)
(* get_long_links                                                          *)
(***************************************************************************)
\* lines 42-48: load the cache file, or start from {} when it is missing
LoadCache ==
    /\ pc = "gl_open"
    /\ link_dict' = IF file.exists THEN file.dict ELSE EmptyDict
    /\ longlink_list' = <<>>
    /\ i' = 1
    /\ hist' = [hist EXCEPT !.log = Append(@, "read"), !.file0 = file,
                            !.requests = <<>>, !.outcome = <<>>]
    /\ pc' = "gl_loop"
    /\ UNCHANGED <<caller, exc, link_list, file, asinisbn_list, j, input_list, m,
                   table, conn, id_tuple, id_type, avalon, df_asin, df_isbn, final_df>>

\* what every step of the loop leaves alone
LoopFrame ==
    UNCHANGED <<pc, caller, exc, link_list, file, link_dict, asinisbn_list, j,
                input_list, m, table, conn, id_tuple, id_type, avalon, df_asin,
                df_isbn, final_df>>

\* lines 50-52: the link is a key of link_dict
LoopCached ==
    /\ pc = "gl_loop" /\ i <= Len(link_list)
    /\ link_list[i] \in DOMAIN link_dict
    /\ longlink_list' = Append(longlink_list, <<link_list[i], link_dict[link_list[i]]>>)
    /\ i' = i + 1
    /\ hist' = [hist EXCEPT !.outcome = Append(@, "cached")]
    /\ LoopFrame

\* lines 53-56: KeyError, and the HEAD request returns a final URL
LoopResolved ==
    /\ pc = "gl_loop" /\ i <= Len(link_list)
    /\ link_list[i] \notin DOMAIN link_dict
    /\ \E url \in NetURLs :
           longlink_list' = Append(longlink_list, <<link_list[i], url>>)
    /\ i' = i + 1
    /\ hist' = [hist EXCEPT !.outcome = Append(@, "ok"),
                            !.requests = Append(@, link_list[i])]
    /\ LoopFrame

\* LoopFailed with the failed link kept in the output
LoopFailedKeeps ==
    /\ pc = "gl_loop" /\ i <= Len(link_list)
    /\ link_list[i] \notin DOMAIN link_dict
    /\ longlink_list' = Append(longlink_list, <<link_list[i], <<"/", "b", "0">>>>)
    /\ i' = i + 1
    /\ hist' = [hist EXCEPT !.outcome = Append(@, "fail"),
                            !.requests = Append(@, link_list[i])]
    /\ LoopFrame

\* lines 53-58: KeyError, and the HEAD request raises (timeout, refused, ...)
LoopFailed ==
    /\ pc = "gl_loop" /\ i <= Len(link_list)
    /\ link_list[i] \notin DOMAIN link_dict
    /\ longlink_list' = longlink_list
    /\ i' = i + 1
    /\ hist' = [hist EXCEPT !.outcome = Append(@, "fail"),
                            !.requests = Append(@, link_list[i])]
    /\ LoopFrame

\* Merged with the loaded entries forgotten
MergedNewOnly(dict, pairs) == DictOf(pairs)

\* lines 60-61: the dictionary that is written back
Merged(dict, pairs) == Update(dict, DictOf(pairs))

\* SaveCache with the file written before the update
SaveCacheStale ==
    /\ pc = "gl_loop" /\ i > Len(link_list)
    /\ link_dict' = Merged(link_dict, longlink_list)
    /\ file' = [exists |-> TRUE, dict |-> link_dict]
    /\ hist' = [hist EXCEPT !.log = Append(@, "write")]
    /\ pc' = "gl_return"
    /\ UNCHANGED <<caller, exc, link_list, longlink_list, i, asinisbn_list, j,
                   input_list, m, table, conn, id_tuple, id_type, avalon, df_asin,
                   df_isbn, final_df>>

\* lines 60-64: merge the pairs of this run into link_dict and overwrite the file
SaveCache ==
    /\ pc = "gl_loop" /\ i > Len(link_list)
    /\ link_dict' = Merged(link_dict, longlink_list)
    /\ file' = [exists |-> TRUE, dict |-> link_dict']
    /\ hist' = [hist EXCEPT !.log = Append(@, "write")]
    /\ pc' = "gl_return"
    /\ UNCHANGED <<caller, exc, link_list, longlink_list, i, asinisbn_list, j,
                   input_list, m, table, conn, id_tuple, id_type, avalon, df_asin,
                   df_isbn, final_df>>

\* line 69, get_long_links called on its own: the list goes back to the caller
ResolverReturn ==
    /\ pc = "gl_return" /\ caller = "get_long_links"
    /\ pc' = "done"
    /\ UNCHANGED <<caller, exc, link_list, file, link_dict, longlink_list, i,
                   asinisbn_list, j, input_list, m, table, conn, id_tuple, id_type,
                   avalon, df_asin, df_isbn, final_df, hist>>

\* get_long_links called a second time with the same link_list, the file as the
\* first call left it
ResolverAgain ==
    /\ pc = "done" /\ caller = "get_long_links" /\ hist.run = 1
    /\ hist' = [hist EXCEPT !.run = 2, !.out1 = longlink_list, !.outcome1 = hist.outcome]
    /\ pc' = "gl_open"
    /\ UNCHANGED <<caller, exc, link_list, file, link_dict, longlink_list, i,
                   asinisbn_list, j, input_list, m, table, conn, id_tuple, id_type,
                   avalon, df_asin, df_isbn, final_df>>

(***************************************************************************)
(* get_asinisbns                                                           *)
(***************************************************************************)
ExtractFrame ==
    UNCHANGED <<caller, link_list, file, link_dict, longlink_list, i, input_list,
                m, table, conn, id_tuple, id_type, avalon, df_asin, df_isbn,
                final_df, hist>>

\* lines 81-84: the URL has a match, match[0] is appended with the link
ExtractMatch ==
    /\ pc = "ga_loop" /\ j <= Len(longlink_list)
    /\ re_search(longlink_list[j][2]).found
    /\ asinisbn_list' = Append(asinisbn_list,
                               <<longlink_list[j][1], re_search(longlink_list[j][2]).group0>>)
    /\ j' = j + 1
    /\ UNCHANGED <<pc, exc>>
    /\ ExtractFrame

\* the exception that None[0] raises at line 84
SubscriptNone == "TypeError"

\* the exceptions that line 85 catches
Caught == {"IndexError"}

\* lines 82-86: re.search returned None; match[0] raises, and the loop goes on
\* only when the except clause of line 85 catches what was raised
ExtractNoMatch ==
    /\ pc = "ga_loop" /\ j <= Len(longlink_list)
    /\ ~re_search(longlink_list[j][2]).found
    /\ IF SubscriptNone \in Caught
       THEN /\ j' = j + 1
            /\ UNCHANGED <<pc, exc>>
       ELSE /\ exc' = SubscriptNone
            /\ pc' = "raised"
            /\ j' = j
    /\ asinisbn_list' = asinisbn_list
    /\ ExtractFrame

\* lines 88-89: the loop is over; get() (line 136) hands the list to get_inputs
ExtractReturn ==
    /\ pc = "ga_loop" /\ j > Len(longlink_list)
    /\ caller \in {"get", "get_asinisbns"}
    /\ input_list' = asinisbn_list
    /\ pc' = "gi"
    /\ UNCHANGED <<caller, exc, link_list, file, link_dict, longlink_list, i,
                   asinisbn_list, j, m, table, conn, id_tuple, id_type, avalon,
                   df_asin, df_isbn, final_df, hist>>

(***************************************************************************)
(* get_inputs                                                              *)
(***************************************************************************)
AsinLen == 10
IsbnLen == 13

\* InputsLoop with a bare else in place of the test of line 104
RECURSIVE InputsLoopElse(_, _, _, _)
InputsLoopElse(list, k, asin_input, isbn_input) ==
    IF k > Len(list) THEN [asin |-> asin_input, isbn |-> isbn_input]
    ELSE IF Len(list[k][2]) = AsinLen
         THEN InputsLoopElse(list, k + 1, Append(asin_input, list[k]), isbn_input)
    ELSE InputsLoopElse(list, k + 1, asin_input, Append(isbn_input, list[k]))

\* lines 101-107 from element k on, with the two lists built so far
RECURSIVE InputsLoop(_, _, _, _)
InputsLoop(list, k, asin_input, isbn_input) ==
    IF k > Len(list) THEN [asin |-> asin_input, isbn |-> isbn_input]
    ELSE IF Len(list[k][2]) = AsinLen
         THEN InputsLoop(list, k + 1, Append(asin_input, list[k]), isbn_input)
    ELSE IF Len(list[k][2]) = IsbnLen
         THEN InputsLoop(list, k + 1, asin_input, Append(isbn_input, list[k]))
    ELSE InputsLoop(list, k + 1, asin_input, isbn_input)

\* lines 98-109
get_inputs(list) == InputsLoop(list, 1, <<>>, <<>>)

Classify ==
    /\ pc = "gi"
    /\ m' = get_inputs(input_list)
    /\ pc' = IF caller = "get" THEN "connect" ELSE "done"
    /\ UNCHANGED <<caller, exc, link_list, file, link_dict, longlink_list, i,
                   asinisbn_list, j, input_list, table, conn, id_tuple, id_type,
                   avalon, df_asin, df_isbn, final_df, hist>>

(***************************************************************************)
(* The warehouse table and get_metadata                                    *)
(***************************************************************************)
Row(isbn, asin, title, division) ==
    [ISBN_13 |-> isbn, ASIN |-> asin, title |-> title, division |-> division]

AsinOther == <<"B", "0", "0", "Z", "Z", "Z", "Z", "Z", "Z", "Z">>

RowPool == {Row(Isbn1, AsinB, "t1", "PRH UK"),
            Row(Isbn1, AsinOther, "t2", "PRH US"),
            Row(Isbn1, AsinB, "t3", "PRH Other")}

Tables == SeqsUpTo(RowPool, MaxRows)

\* line 30
ExcludedDivisions == {"PRH Other", "PRH Corporate"}

\* SELECT DISTINCT: a row is kept at its first occurrence
Distinct(rows) ==
    SelectSeq([k \in 1 .. Len(rows) |-> [row |-> rows[k], k |-> k]],
              LAMBDA e : \A k2 \in 1 .. (e.k - 1) : rows[k2] # e.row)

\* lines 16-32: the rows the query selects from the table
Select(rows, column, values) ==
    LET hit(r) == /\ r.division \notin ExcludedDivisions
                  /\ r[column] \in values
        kept == SelectSeq(rows, hit)
        d == Distinct(kept)
    IN  [k \in 1 .. Len(d) |-> d[k].row]

\* line 119
id_types == {"ASIN", "ISBN_13"}

\* line 123
id_input(tuple) == [k \in 1 .. Len(tuple) |-> tuple[k][2]]

Range(seq) == {seq[k] : k \in 1 .. Len(seq)}

\* Merge as a left join: a left row without a match is kept, its columns empty
RECURSIVE MergeLeft(_, _, _)
MergeLeft(left, right, column) ==
    IF left = <<>> THEN <<>>
    ELSE LET l == Head(left)
             hits == SelectSeq(right, LAMBDA r : r[column] = l[2])
             rows == [k \in 1 .. Len(hits) |->
                         [link |-> l[1], ISBN_13 |-> hits[k].ISBN_13,
                          ASIN |-> hits[k].ASIN, title |-> hits[k].title,
                          division |-> hits[k].division]]
             none == <<[link |-> l[1], ISBN_13 |-> <<>>, ASIN |-> <<>>,
                        title |-> "NaN", division |-> "NaN"]>>
         IN  (IF hits = <<>> THEN none ELSE rows) \o MergeLeft(Tail(left), right, column)

\* lines 127-129: metadata_df.merge(_avalon, on=id_type), an inner join that
\* keeps the order of the left rows
RECURSIVE Merge(_, _, _)
Merge(left, right, column) ==
    IF left = <<>> THEN <<>>
    ELSE LET l == Head(left)
             hits == SelectSeq(right, LAMBDA r : r[column] = l[2])
             rows == [k \in 1 .. Len(hits) |->
                         [link |-> l[1], ISBN_13 |-> hits[k].ISBN_13,
                          ASIN |-> hits[k].ASIN, title |-> hits[k].title,
                          division |-> hits[k].division]]
         IN  rows \o Merge(Tail(left), right, column)

MetadataFrame ==
    UNCHANGED <<caller, link_list, file, link_dict, longlink_list, i,
                asinisbn_list, j, input_list, m, table, id_tuple, id_type>>

\* where an exception raised inside get_metadata goes: out of the with block
\* when get() called it, straight to the caller otherwise
RaiseTarget == IF caller = "get" THEN "with_exit" ELSE "raised"

\* lines 119-120, the tag is one of id_types
MetadataTypeOk ==
    /\ pc = "md_check"
    /\ id_type \in id_types
    /\ pc' = "md_query"
    /\ UNCHANGED <<exc, conn, avalon, df_asin, df_isbn, final_df, hist>>
    /\ MetadataFrame

\* MetadataTypeBad with the test placed after pd.read_sql
MetadataTypeBadLate ==
    /\ pc = "md_check"
    /\ id_type \notin id_types
    /\ hist' = [hist EXCEPT !.log = Append(@, "query"),
                            !.queries = Append(@, [column |-> id_type,
                                                   values |-> id_input(id_tuple)])]
    /\ exc' = "ValueError"
    /\ pc' = RaiseTarget
    /\ UNCHANGED <<conn, avalon, df_asin, df_isbn, final_df>>
    /\ MetadataFrame

\* lines 119-121, the tag is not one of id_types
MetadataTypeBad ==
    /\ pc = "md_check"
    /\ id_type \notin id_types
    /\ exc' = "ValueError"
    /\ pc' = RaiseTarget
    /\ UNCHANGED <<conn, avalon, df_asin, df_isbn, final_df, hist>>
    /\ MetadataFrame

\* lines 123-126: the query is built and pd.read_sql returns its rows
MetadataQuery ==
    /\ pc = "md_query"
    /\ hist' = [hist EXCEPT !.log = Append(@, "query"),
                            !.queries = Append(@, [column |-> id_type,
                                                   values |-> id_input(id_tuple)])]
    /\ avalon' = Select(table, id_type, Range(id_input(id_tuple)))
    /\ pc' = "md_merge"
    /\ UNCHANGED <<exc, conn, df_asin, df_isbn, final_df>>
    /\ MetadataFrame

\* lines 123-126: pd.read_sql raises (the warehouse rejects or loses the query)
MetadataQueryFails ==
    /\ pc = "md_query"
    /\ hist' = [hist EXCEPT !.log = Append(@, "query"),
                            !.queries = Append(@, [column |-> id_type,
                                                   values |-> id_input(id_tuple)])]
    /\ exc' = "DatabaseError"
    /\ pc' = RaiseTarget
    /\ UNCHANGED <<conn, avalon, df_asin, df_isbn, final_df>>
    /\ MetadataFrame

\* lines 127-129, and the assignment of the result at the call (145, 147)
MetadataReturn ==
    /\ pc = "md_merge"
    /\ LET df == Merge(id_tuple, avalon, id_type)
       IN  IF caller = "get"
           THEN IF id_type = "ASIN"
                THEN df_asin' = df /\ pc' = "get_isbn"
                               /\ UNCHANGED <<df_isbn, final_df>>
                ELSE df_isbn' = df /\ pc' = "with_exit"
                               /\ UNCHANGED <<df_asin, final_df>>
           ELSE final_df' = df /\ pc' = "done" /\ UNCHANGED <<df_asin, df_isbn>>
    /\ UNCHANGED <<exc, conn, avalon, hist>>
    /\ MetadataFrame

(***************************************************************************)
(* get                                                                     *)
(***************************************************************************)
\* line 135: get_long_links has returned l1, get_asinisbns starts on it
GetExtract ==
    /\ pc = "gl_return" /\ caller = "get"
    /\ asinisbn_list' = <<>>
    /\ j' = 1
    /\ pc' = "ga_loop"
    /\ UNCHANGED <<caller, exc, link_list, file, link_dict, longlink_list, i,
                   input_list, m, table, conn, id_tuple, id_type, avalon, df_asin,
                   df_isbn, final_df, hist>>

GetFrame ==
    UNCHANGED <<caller, link_list, file, link_dict, longlink_list, i,
                asinisbn_list, j, input_list, m, table, avalon>>

\* lines 138-143: the connection is opened
Connect ==
    /\ pc = "connect"
    /\ conn' = "open"
    /\ hist' = [hist EXCEPT !.log = Append(@, "connect")]
    /\ df_asin' = <<>> /\ df_isbn' = <<>>
    /\ pc' = "get_asin"
    /\ UNCHANGED <<exc, id_tuple, id_type, final_df>>
    /\ GetFrame

\* ConnectFails with the exception swallowed
ConnectFailsSwallowed ==
    /\ pc = "connect"
    /\ hist' = [hist EXCEPT !.log = Append(@, "connect_failed")]
    /\ pc' = "concat"
    /\ UNCHANGED <<exc, conn, id_tuple, id_type, df_asin, df_isbn, final_df>>
    /\ GetFrame

\* lines 141-143: SnowflakeConfig.load or SSQL.connect raises
ConnectFails ==
    /\ pc = "connect"
    /\ exc' = "DatabaseError"
    /\ hist' = [hist EXCEPT !.log = Append(@, "connect_failed")]
    /\ pc' = "raised"
    /\ UNCHANGED <<conn, id_tuple, id_type, df_asin, df_isbn, final_df>>
    /\ GetFrame

\* lines 144-145, the ASIN group is not empty
CallAsin ==
    /\ pc = "get_asin"
    /\ Len(m.asin) > 0
    /\ id_tuple' = m.asin /\ id_type' = "ASIN"
    /\ pc' = "md_check"
    /\ UNCHANGED <<exc, conn, df_asin, df_isbn, final_df, hist>>
    /\ GetFrame

\* line 144, the ASIN group is empty
SkipAsin ==
    /\ pc = "get_asin"
    /\ ~(Len(m.asin) > 0)
    /\ pc' = "get_isbn"
    /\ UNCHANGED <<exc, conn, id_tuple, id_type, df_asin, df_isbn, final_df, hist>>
    /\ GetFrame

\* lines 146-147, the ISBN group is not empty
CallIsbn ==
    /\ pc = "get_isbn"
    /\ Len(m.isbn) > 0
    /\ id_tuple' = m.isbn /\ id_type' = "ISBN_13"
    /\ pc' = "md_check"
    /\ UNCHANGED <<exc, conn, df_asin, df_isbn, final_df, hist>>
    /\ GetFrame

\* line 146, the ISBN group is empty
SkipIsbn ==
    /\ pc = "get_isbn"
    /\ ~(Len(m.isbn) > 0)
    /\ pc' = "with_exit"
    /\ UNCHANGED <<exc, conn, id_tuple, id_type, df_asin, df_isbn, final_df, hist>>
    /\ GetFrame

\* WithExit without the context manager: an exception skips the close
WithExitLeak ==
    /\ pc = "with_exit"
    /\ conn' = IF exc = "none" THEN "closed" ELSE conn
    /\ hist' = [hist EXCEPT !.log = IF exc = "none" THEN Append(@, "close") ELSE @]
    /\ pc' = IF exc = "none" THEN "concat" ELSE "raised"
    /\ UNCHANGED <<exc, id_tuple, id_type, df_asin, df_isbn, final_df>>
    /\ GetFrame

\* line 143, leaving the with block: the connection is closed, and an exception
\* raised inside the block goes on to the caller of get()
WithExit ==
    /\ pc = "with_exit"
    /\ conn' = "closed"
    /\ hist' = [hist EXCEPT !.log = Append(@, "close")]
    /\ pc' = IF exc = "none" THEN "concat" ELSE "raised"
    /\ UNCHANGED <<exc, id_tuple, id_type, df_asin, df_isbn, final_df>>
    /\ GetFrame

\* lines 149-153
Concat ==
    /\ pc = "concat"
    /\ final_df' = df_asin \o df_isbn
    /\ pc' = "done"
    /\ UNCHANGED <<exc, conn, id_tuple, id_type, df_asin, df_isbn, hist>>
    /\ GetFrame


(***************************************************************************)
(* Specifications                                                          *)
(***************************************************************************)
NoResult == [asin |-> <<>>, isbn |-> <<>>]

\* a call of get_long_links(link_list, names) with any cache file on disk
InitResolver ==
    /\ pc = "gl_open" /\ caller = "get_long_links" /\ exc = "none"
    /\ link_list \in SeqsUpTo(Links, MaxLinks)
    /\ file \in Files
    /\ link_dict = EmptyDict /\ longlink_list = <<>> /\ i = 1
    /\ asinisbn_list = <<>> /\ j = 1 /\ input_list = <<>> /\ m = NoResult
    /\ table = <<>> /\ conn = "none" /\ id_tuple = <<>> /\ id_type = "ASIN"
    /\ avalon = <<>> /\ df_asin = <<>> /\ df_isbn = <<>> /\ final_df = <<>>
    /\ hist = NoHist

NextResolver ==
    \/ LoadCache
    \/ LoopCached
    \/ LoopResolved
    \/ LoopFailed
    \/ SaveCache
    \/ ResolverReturn
    \/ ResolverAgain

SpecResolver == InitResolver /\ [][NextResolver]_vars

\* a call of get(link_list) with any cache file on disk and any warehouse table
Init ==
    /\ pc = "gl_open" /\ caller = "get" /\ exc = "none"
    /\ link_list \in SeqsUpTo(Links, MaxLinks)
    /\ file \in Files
    /\ table \in Tables
    /\ link_dict = EmptyDict /\ longlink_list = <<>> /\ i = 1
    /\ asinisbn_list = <<>> /\ j = 1 /\ input_list = <<>> /\ m = NoResult
    /\ conn = "none" /\ id_tuple = <<>> /\ id_type = "ASIN"
    /\ avalon = <<>> /\ df_asin = <<>> /\ df_isbn = <<>> /\ final_df = <<>>
    /\ hist = NoHist

Next ==
    \/ LoadCache
    \/ LoopCached
    \/ LoopResolved
    \/ LoopFailed
    \/ SaveCache
    \/ GetExtract
    \/ ExtractMatch
    \/ ExtractNoMatch
    \/ ExtractReturn
    \/ Classify
    \/ Connect
    \/ ConnectFails
    \/ CallAsin
    \/ SkipAsin
    \/ CallIsbn
    \/ SkipIsbn
    \/ MetadataTypeOk
    \/ MetadataQuery
    \/ MetadataQueryFails
    \/ MetadataReturn
    \/ WithExit
    \/ Concat

Spec == Init /\ [][Next]_vars

\* identifiers handed to get_inputs and get_metadata when they are called directly
IdPool == {Isbn1, AsinB, <<>>, SubSeq(Isbn1, 1, 9), SubSeq(Isbn1, 1, 11),
           Isbn1 \o <<"0">>}

\* get_asinisbns(l1) on any list of pairs, its result handed to get_inputs as
\* lines 135-136 do; or get_inputs(l2) on any list of pairs
InitFuncs ==
    /\ exc = "none"
    /\ \/ /\ caller = "get_asinisbns" /\ pc = "ga_loop"
          /\ longlink_list \in SeqsUpTo(Links \X URLS, MaxLinks)
          /\ input_list = <<>>
       \/ /\ caller = "get_inputs" /\ pc = "gi"
          /\ longlink_list = <<>>
          /\ input_list \in SeqsUpTo(Links \X IdPool, MaxIds)
    /\ link_list = <<>> /\ file = NoFile /\ table = <<>>
    /\ link_dict = EmptyDict /\ i = 1
    /\ asinisbn_list = <<>> /\ j = 1 /\ m = NoResult
    /\ conn = "none" /\ id_tuple = <<>> /\ id_type = "ASIN"
    /\ avalon = <<>> /\ df_asin = <<>> /\ df_isbn = <<>> /\ final_df = <<>>
    /\ hist = NoHist

NextFuncs ==
    \/ ExtractMatch
    \/ ExtractNoMatch
    \/ ExtractReturn
    \/ Classify

SpecFuncs == InitFuncs /\ [][NextFuncs]_vars

TypeTags == {"ASIN", "ISBN_13", "UPC", "asin", "ISBN"}

\* get_metadata(names, conn, id_tuple, id_type) called with an open connection,
\* any group and any tag
InitMetadata ==
    /\ pc = "md_check" /\ caller = "get_metadata" /\ exc = "none"
    /\ id_tuple \in SeqsUpTo(Links \X {Isbn1, AsinB}, MaxLinks)
    /\ id_type \in TypeTags
    /\ table \in Tables
    /\ conn = "open"
    /\ link_list = <<>> /\ file = NoFile
    /\ link_dict = EmptyDict /\ longlink_list = <<>> /\ i = 1
    /\ asinisbn_list = <<>> /\ j = 1 /\ input_list = <<>> /\ m = NoResult
    /\ avalon = <<>> /\ df_asin = <<>> /\ df_isbn = <<>> /\ final_df = <<>>
    /\ hist = NoHist

NextMetadata ==
    \/ MetadataTypeOk
    \/ MetadataTypeBad
    \/ MetadataQuery
    \/ MetadataQueryFails
    \/ MetadataReturn

SpecMetadata == InitMetadata /\ [][NextMetadata]_vars

(***************************************************************************)
(* Properties                                                              *)
(***************************************************************************)
\* the dictionary get_long_links loaded at the start of the running call
Loaded == IF hist.file0.exists THEN hist.file0.dict ELSE EmptyDict

\* get_long_links is past its loop and its write
Resolved == pc \notin {"gl_open", "gl_loop"}

\* the n-th smallest element of a set of numbers
Nth(S, n) == CHOOSE x \in S : Cardinality({y \in S : y <= x}) = n

\* the positions of link_list that were in the cache or whose request succeeded
Kept == {k \in 1 .. Len(link_list) :
            link_list[k] \in DOMAIN Loaded \/ hist.outcome[k] = "ok"}

\* C2: get_long_links returns exactly one pair for each occurrence of a link
\* that is in the loaded cache or whose HEAD request succeeds, in input order; a
\* cached link gets the cached URL and no request is issued for it; an
\* occurrence whose request fails gives no pair.
C2_ResolverOutput ==
    Resolved =>
        /\ Len(hist.outcome) = Len(link_list)
        /\ Len(longlink_list) = Cardinality(Kept)
        /\ \A n \in 1 .. Len(longlink_list) :
              LET k == Nth(Kept, n)
              IN  /\ longlink_list[n][1] = link_list[k]
                  /\ link_list[k] \in DOMAIN Loaded
                        => longlink_list[n][2] = Loaded[link_list[k]]
                  /\ longlink_list[n][2] \in NetURLs
        /\ \A r \in 1 .. Len(hist.requests) : hist.requests[r] \notin DOMAIN Loaded
        /\ Len(hist.requests) =
              Cardinality({k \in 1 .. Len(link_list) : link_list[k] \notin DOMAIN Loaded})

C2_Witness ==
    /\ pc = "done" /\ caller = "get_long_links"
    /\ Len(link_list) = 2
    /\ link_list[1] \notin DOMAIN Loaded /\ hist.outcome[1] = "fail"
    /\ link_list[2] \in DOMAIN Loaded
    /\ Len(longlink_list) = 1

\* the links for which some request of the running call succeeded
NewlyResolved == {link_list[k] : k \in {k2 \in 1 .. Len(link_list) : hist.outcome[k2] = "ok"}}

\* C3: after a run of get_long_links the cache file holds the loaded cache
\* (empty when the file was missing) merged with the links resolved in this run:
\* every old entry is still there with its old URL, every other entry is a link
\* resolved in this run with a URL this run returned for it, and a link that was
\* not cached and got no successful request is absent.
C3_PersistedCache ==
    Resolved =>
        /\ file.exists
        /\ DOMAIN file.dict = DOMAIN Loaded \cup NewlyResolved
        /\ \A k \in DOMAIN Loaded : file.dict[k] = Loaded[k]
        /\ \A k \in NewlyResolved :
              \E n \in 1 .. Len(longlink_list) : longlink_list[n] = <<k, file.dict[k]>>
        /\ \A k \in 1 .. Len(link_list) :
              (link_list[k] \notin DOMAIN Loaded /\ link_list[k] \notin NewlyResolved)
                  => link_list[k] \notin DOMAIN file.dict

C3_Witness ==
    /\ pc = "done" /\ caller = "get_long_links" /\ hist.run = 1
    /\ Len(link_list) = 2
    /\ hist.outcome = <<"fail", "ok">>
    /\ link_list[1] # link_list[2]
    /\ DOMAIN Loaded = {}
    /\ ~hist.file0.exists

\* C4 as stated: the second run on the same input with the cache the first run
\* persisted issues no request and returns the pairs of the first run.
C4_Idempotent ==
    (caller = "get_long_links" /\ pc = "done" /\ hist.run = 2) =>
        /\ hist.requests = <<>>
        /\ longlink_list = hist.out1

\* every occurrence of a link resolved to one URL in the first run
OneUrlPerLink(pairs) ==
    \A a \in 1 .. Len(pairs) : \A b \in 1 .. Len(pairs) :
        pairs[a][1] = pairs[b][1] => pairs[a][2] = pairs[b][2]

\* C4 amended: the second run issues requests only for links that got no pair in
\* the first run; when no request of the first run failed and no link was
\* resolved to two different URLs in it, the second run issues no request and
\* returns the pairs of the first run.
C4_IdempotentWhenResolved ==
    (caller = "get_long_links" /\ pc = "done" /\ hist.run = 2) =>
        /\ \A r \in 1 .. Len(hist.requests) :
              \A n \in 1 .. Len(hist.out1) : hist.out1[n][1] # hist.requests[r]
        /\ ("fail" \notin Range(hist.outcome1) /\ OneUrlPerLink(hist.out1)) =>
              /\ hist.requests = <<>>
              /\ longlink_list = hist.out1

C4_Witness ==
    /\ caller = "get_long_links" /\ pc = "done" /\ hist.run = 2
    /\ hist.outcome1 = <<"ok", "cached">>
    /\ hist.outcome = <<"cached", "cached">>
    /\ longlink_list = hist.out1

\* the columns a row of the returned table takes from warehouse row t
FromRow(r, t) ==
    r = [link |-> r.link, ISBN_13 |-> t.ISBN_13, ASIN |-> t.ASIN,
         title |-> t.title, division |-> t.division]

\* C1: every row of the table get() returns carries a link of the input list,
\* one that was resolved (from the cache or by a request that succeeded), whose
\* resolved URL yields an identifier and whose identifier has a warehouse row,
\* the row the metadata come from; no other row (no error row) is produced.
C1_RowsTraceBack ==
    \A n \in 1 .. Len(final_df) :
        LET r == final_df[n]
        IN  /\ \E k \in 1 .. Len(link_list) :
                  link_list[k] = r.link /\ hist.outcome[k] # "fail"
            /\ \E q \in 1 .. Len(longlink_list) :
                  /\ longlink_list[q][1] = r.link
                  /\ re_search(longlink_list[q][2]).found
                  /\ LET id == re_search(longlink_list[q][2]).group0
                     IN  \E t \in Range(table) :
                             /\ t.division \notin {"PRH Other", "PRH Corporate"}
                             /\ \/ Len(id) = 13 /\ t.ISBN_13 = id
                                \/ Len(id) = 10 /\ t.ASIN = id
                             /\ FromRow(r, t)

C1_Witness ==
    /\ pc = "done" /\ caller = "get"
    /\ Len(final_df) >= 1
    /\ Len(link_list) = 2
    /\ hist.outcome[1] = "fail"
    /\ link_list[1] # link_list[2]
    /\ \A n \in 1 .. Len(final_df) : final_df[n].link = link_list[2]

\* what get_asinisbns is to return for a list of pairs
RECURSIVE FirstMatches(_)
FirstMatches(pairs) ==
    IF pairs = <<>> THEN <<>>
    ELSE IF re_search(Head(pairs)[2]).found
         THEN <<<<Head(pairs)[1], re_search(Head(pairs)[2]).group0>>>>
                  \o FirstMatches(Tail(pairs))
    ELSE FirstMatches(Tail(pairs))

\* C5: get_asinisbns returns (link, first match) for exactly the pairs whose
\* URL has a match, in input order; a pair without a match is dropped and the
\* loop goes on, no error is raised.
C5_DropsUnmatched ==
    caller = "get_asinisbns" =>
        /\ exc = "none"
        /\ pc # "raised"
        /\ pc \in {"gi", "done"} => asinisbn_list = FirstMatches(longlink_list)

\* the URL contains a 13-digit string beginning with 978
Contains978(url) ==
    \E p \in 1 .. Len(url) :
        /\ p + 12 <= Len(url)
        /\ url[p] = "9" /\ url[p + 1] = "7" /\ url[p + 2] = "8"
        /\ \A k \in p .. (p + 12) : url[k] \in Digit

\* the URL contains "B" followed by 9 alphanumeric characters (of the classes the
\* regex accepts: digits and upper-case letters)
ContainsB(url) ==
    \E p \in 1 .. Len(url) :
        /\ p + 9 <= Len(url)
        /\ url[p] = "B"
        /\ \A k \in (p + 1) .. (p + 9) : url[k] \in Digit \cup Upper

InGroup(link, group) == \E n \in 1 .. Len(group) : group[n][1] = link

\* C6: through get_asinisbns and get_inputs, every link whose resolved URL
\* contains a 13-digit string beginning with 978 ends up in the ISBN group, and
\* every link whose resolved URL contains "B" and 9 alphanumerics ends up in the
\* ASIN group.
C6_RoundTrip ==
    (caller = "get_asinisbns" /\ pc \in {"done", "raised"}) =>
        \A n \in 1 .. Len(longlink_list) :
            /\ Contains978(longlink_list[n][2]) => InGroup(longlink_list[n][1], m.isbn)
            /\ ContainsB(longlink_list[n][2]) => InGroup(longlink_list[n][1], m.asin)

\* the positions of input_list whose identifier has n characters
OfLength(n) == {k \in 1 .. Len(input_list) : Len(input_list[k][2]) = n}

\* group holds the elements of input_list at the positions S, in their order
IsSelection(group, S) ==
    /\ Len(group) = Cardinality(S)
    /\ \A n \in 1 .. Len(group) : group[n] = input_list[Nth(S, n)]

\* C7: get_inputs puts every pair in exactly one of the ASIN group (identifier
\* of length 10), the ISBN group (length 13) or neither (any other length),
\* each group in input order; every identifier the regex extracts has length 10
\* or 13, so get_inputs drops none of them.
C7_Partition ==
    /\ \A n \in 1 .. Len(asinisbn_list) : Len(asinisbn_list[n][2]) \in {10, 13}
    /\ pc = "done" =>
          /\ IsSelection(m.asin, OfLength(10))
          /\ IsSelection(m.isbn, OfLength(13))
          /\ caller = "get_asinisbns" =>
                /\ input_list = asinisbn_list
                /\ Len(m.asin) + Len(m.isbn) = Len(input_list)

C7_Witness ==
    /\ pc = "done" /\ caller = "get_inputs"
    /\ Len(input_list) = 3
    /\ Len(input_list[1][2]) = 13
    /\ Len(input_list[2][2]) = 11
    /\ Len(input_list[3][2]) = 10
    /\ Len(m.asin) = 1 /\ Len(m.isbn) = 1

\* C8: get_metadata with a tag other than "ASIN" and "ISBN_13" raises
\* ValueError before a query is built or executed: no query is issued on that
\* call, whatever the group is.
C8_BadTagRaises ==
    (caller = "get_metadata" /\ id_type \notin {"ASIN", "ISBN_13"}) =>
        /\ hist.queries = <<>>
        /\ pc \in {"md_check", "raised"}
        /\ pc = "raised" => exc = "ValueError" /\ final_df = <<>>

C8_Witness ==
    /\ caller = "get_metadata" /\ id_type = "UPC"
    /\ pc = "raised" /\ exc = "ValueError"
    /\ Len(id_tuple) = 2
    /\ table # <<>>

\* the positions of the log that hold event e
At(e) == {n \in 1 .. Len(hist.log) : hist.log[n] = e}

\* C9: in get() the connection is open only during the metadata phase and is
\* closed on every way out of it (both queries done, a query raised, both
\* groups empty); a query runs only for a non-empty group, on the open
\* connection, the ASIN query before the ISBN query; no connection is open when
\* get() returns or raises.
C9_ConnectionScoped ==
    /\ pc \in {"done", "raised"} => conn # "open"
    /\ conn = "open" =>
          pc \in {"get_asin", "get_isbn", "md_check", "md_query", "md_merge", "with_exit"}
    /\ (pc \in {"done", "raised", "concat"} /\ At("connect") # {}) =>
          /\ conn = "closed"
          /\ hist.log[Len(hist.log)] = "close"
          /\ Cardinality(At("close")) = 1
    /\ \A n \in At("query") :
          /\ \E c \in At("connect") : c < n
          /\ \A c \in At("close") : n < c
    /\ \A n \in 1 .. Len(hist.queries) : hist.queries[n].values # <<>>
    /\ Len(hist.queries) <= 2
    /\ Len(hist.queries) = 2 =>
          hist.queries[1].column = "ASIN" /\ hist.queries[2].column = "ISBN_13"
    /\ pc = "done" =>
          /\ (m.asin = <<>>) = (\A n \in 1 .. Len(hist.queries) : hist.queries[n].column # "ASIN")
          /\ (m.isbn = <<>>) = (\A n \in 1 .. Len(hist.queries) : hist.queries[n].column # "ISBN_13")

C9_Witness ==
    /\ caller = "get" /\ pc = "raised" /\ exc = "DatabaseError"
    /\ Len(hist.queries) = 2
    /\ conn = "closed"

\* C10: in a run of get() the cache file is read once and written once, the
\* write before the connection is opened and before any query; a failure of the
\* connection or of a query goes out of get() and ends the run without a
\* result, and the cache file then holds every link resolved in the run.
C10_CacheBeforeWarehouse ==
    /\ Cardinality(At("read")) = (IF pc = "gl_open" THEN 0 ELSE 1)
    /\ Cardinality(At("write")) = (IF Resolved THEN 1 ELSE 0)
    /\ \A n \in At("connect") \cup At("connect_failed") \cup At("query") :
          \E w \in At("write") : w < n
    /\ (At("connect_failed") # {} \/ exc = "DatabaseError") =>
          /\ exc = "DatabaseError"
          /\ pc \in {"with_exit", "raised"}
          /\ final_df = <<>>
          /\ file.exists
          /\ \A k \in 1 .. Len(link_list) :
                hist.outcome[k] = "ok" => link_list[k] \in DOMAIN file.dict
          /\ \A n \in 1 .. Len(longlink_list) :
                file.dict[longlink_list[n][1]] = DictOf(longlink_list)[longlink_list[n][1]]

C10_Witness ==
    /\ caller = "get" /\ pc = "raised" /\ exc = "DatabaseError"
    /\ At("connect_failed") # {}
    /\ ~hist.file0.exists
    /\ hist.outcome = <<"ok", "ok">>
    /\ Cardinality(DOMAIN file.dict) = 2

====
